---- MODULE Spec2Model ----
(***************************************************************************)
(* Model of the ion shell front end:                                       *)
(*   - src/parser/peg.rs: Job, Pipeline, glob expansion, parse             *)
(*   - src/parser/shell_expand/words/methods/mod.rs: Select, select        *)
(* Text is modelled as a sequence of one-character strings.                *)
(***************************************************************************)
EXTENDS Integers, Sequences, FiniteSets, TLC

VARIABLES
    fs,         \* the current working directory: [files, readable]
    job,        \* <<>> before Job::new, <<j>> afterwards
    argsLog,    \* the job's args at Job::new and after each expand_globs call
    pipeline,   \* <<>> before Pipeline::new, <<p>> afterwards
    pipeLog,    \* the pipeline at Pipeline::new and after each expand_globs call
    code,       \* the text last handed to parse
    stmt,       \* <<>> before the first parse, <<s>> the Statement last returned
    printed,    \* the lines parse has written with println!
    data,       \* the text last handed to Select::from_str
    sel,        \* <<>> or <<r>>, the Result last returned by Select::from_str
    call,       \* <<>> or <<c>>, the arguments of the last select call
    out         \* the collection the last select call returned

jobVars == <<job, argsLog>>
pipeVars == <<pipeline, pipeLog>>
parseVars == <<code, stmt, printed>>
selectVars == <<data, sel, call, out>>
vars == <<fs, job, argsLog, pipeline, pipeLog, code, stmt, printed, data, sel, call, out>>

(***************************************************************************)
(* Bounds                                                                  *)
(***************************************************************************)
MaxArgs == 2        \* longest argument list handed to Job::new
MaxExpands == 2     \* expand_globs calls per job / pipeline
MaxJobs == 2        \* longest job list handed to Pipeline::new
MaxTrail == 2       \* most blanks after the last token of a parsed line
MaxPrinted == 2     \* most diagnostics printed before the read loop is cut off
MaxDataLen == 3     \* longest free-form text handed to Select::from_str
MaxItems == 3       \* longest sequence handed to select, and largest size

(***************************************************************************)
(* Text helpers                                                            *)
(***************************************************************************)
\* byte value of a character, the order std::path::PathBuf sorts by
Code(c) ==
    CASE c = "*" -> 42
      [] c = "?" -> 63
      [] c = "[" -> 91
      [] c = "a" -> 97
      [] c = "b" -> 98
      [] c = "l" -> 108
      [] c = "xFF" -> 255
      [] OTHER -> 0

\* peg.rs:65  arg.contains(|chr| chr == '?' || chr == '*' || chr == '[')
IsMetaChar(chr) == chr = "?" \/ chr = "*" \/ chr = "["

ContainsMeta(arg) == \E i \in 1..Len(arg) : IsMetaChar(arg[i])

\* lexicographic order of two names by byte value
RECURSIVE NameLess(_, _)
NameLess(x, y) ==
    IF x = <<>> THEN y # <<>>
    ELSE IF y = <<>> THEN FALSE
    ELSE IF Code(Head(x)) # Code(Head(y)) THEN Code(Head(x)) < Code(Head(y))
    ELSE NameLess(Tail(x), Tail(y))

\* the names of a set in ascending order (glob sorts the directory entries)
RECURSIVE SortNames(_)
SortNames(S) ==
    IF S = {} THEN <<>>
    ELSE LET m == CHOOSE x \in S : \A y \in S \ {x} : NameLess(x, y)
         IN  <<m>> \o SortNames(S \ {m})

(***************************************************************************)
(* glob::glob, as called at peg.rs:66, for one-component patterns over the *)
(* characters a b l ? * [ (no ']' , no '/' and no "**" occur in the        *)
(* argument and file-name domains below).                                  *)
(***************************************************************************)
\* Pattern::new: '[' needs a closing ']' ; without one the pattern is invalid
PatternValid(pat) == \A i \in 1..Len(pat) : pat[i] # "["

\* Pattern::matches: '?' one character, '*' any run, anything else itself
RECURSIVE Matches(_, _)
Matches(pat, name) ==
    IF pat = <<>> THEN name = <<>>
    ELSE IF Head(pat) = "*"
         THEN \/ Matches(Tail(pat), name)
              \/ name # <<>> /\ Matches(pat, Tail(name))
    ELSE IF name = <<>> THEN FALSE
    ELSE IF Head(pat) = "?" THEN Matches(Tail(pat), Tail(name))
    ELSE Head(pat) = Head(name) /\ Matches(Tail(pat), Tail(name))

\* file names that are not valid UTF-8 are skipped by the glob iterator
IsUtf8(name) == \A i \in 1..Len(name) : name[i] # "xFF"

\* glob(&arg): Err(PatternError) for an invalid pattern; otherwise the
\* iterator's items: one Err(GlobError) when the directory cannot be read,
\* else Ok(path) for each matching entry in sorted order
Glob(pat, dir) ==
    IF ~PatternValid(pat) THEN [ok |-> FALSE, items |-> <<>>]
    ELSE IF ~dir.readable THEN [ok |-> TRUE, items |-> << [ok |-> FALSE, path |-> <<>>] >>]
    ELSE LET hits == SortNames({n \in dir.files : IsUtf8(n) /\ Matches(pat, n)})
         IN  [ok |-> TRUE, items |-> [i \in 1..Len(hits) |-> [ok |-> TRUE, path |-> hits[i]]]]

\* path.to_string_lossy().into_owned(): invalid bytes become U+FFFD
ToStringLossy(path) ==
    [i \in 1..Len(path) |-> IF path[i] = "xFF" THEN "uFFFD" ELSE path[i]]

(***************************************************************************)
(* Job                                                                     *)
(***************************************************************************)
JobKind == {"And", "Background", "Or", "Pipe"}

\* Job::new (peg.rs:52-59); args[0] panics on an empty vector, so callers
\* pass a non-empty one
JobNew(args, kind) == [command |-> args[1], args |-> args, kind |-> kind]

\* peg.rs:67-70  for path in expanded.filter_map(Result::ok) { ... }
\* acc = <<new_args, pushed_glob>>
RECURSIVE PushPaths(_, _)
PushPaths(items, acc) ==
    IF items = <<>> THEN acc
    ELSE IF Head(items).ok
         THEN PushPaths(Tail(items), <<Append(acc[1], ToStringLossy(Head(items).path)), TRUE>>)
         ELSE PushPaths(Tail(items), acc)

\* ExpandArg without the pushed_glob test: the pattern is pushed after its matches
ExpandArg_AlwaysPushesArg(arg, new_args, dir) ==
    LET tried == IF ContainsMeta(arg) /\ Glob(arg, dir).ok
                 THEN PushPaths(Glob(arg, dir).items, <<new_args, FALSE>>)
                 ELSE <<new_args, FALSE>>
    IN  Append(tried[1], arg)

\* ExpandArg that pushes the literal only when it was not tried as a pattern
ExpandArg_DropsUnmatched(arg, new_args, dir) ==
    IF ContainsMeta(arg)
    THEN IF Glob(arg, dir).ok
         THEN PushPaths(Glob(arg, dir).items, <<new_args, FALSE>>)[1]
         ELSE new_args
    ELSE Append(new_args, arg)

\* peg.rs:64-75  the body of the loop over self.args.drain(..)
ExpandArg(arg, new_args, dir) ==
    LET tried == IF ContainsMeta(arg) /\ Glob(arg, dir).ok
                 THEN PushPaths(Glob(arg, dir).items, <<new_args, FALSE>>)
                 ELSE <<new_args, FALSE>>
    IN  IF ~tried[2] THEN Append(tried[1], arg) ELSE tried[1]

\* peg.rs:62-77  the loop
RECURSIVE ExpandLoop(_, _, _)
ExpandLoop(args, new_args, dir) ==
    IF args = <<>> THEN new_args
    ELSE ExpandLoop(Tail(args), ExpandArg(Head(args), new_args, dir), dir)

\* expand_globs that iterates over args without draining them: new_args is
\* appended to the old contents
JobExpandGlobs_NoDrain(j, dir) == [j EXCEPT !.args = j.args \o ExpandLoop(j.args, <<>>, dir)]

\* Job::expand_globs (peg.rs:61-78)
JobExpandGlobs(j, dir) == [j EXCEPT !.args = ExpandLoop(j.args, <<>>, dir)]

(***************************************************************************)
(* Pipeline                                                                *)
(***************************************************************************)
\* Pipeline::new (peg.rs:24-30)
PipelineNew(jobs, stdin, stdout) == [jobs |-> jobs, stdin |-> stdin, stdout |-> stdout]

\* Pipeline::expand_globs that drains from the second job on: drain(1..)
PipelineExpandGlobs_DrainTail(p, dir) ==
    [p EXCEPT !.jobs = [i \in 1..(Len(p.jobs) - 1) |-> JobExpandGlobs(p.jobs[i + 1], dir)]]

\* Pipeline::expand_globs (peg.rs:32-38)
PipelineExpandGlobs(p, dir) ==
    [p EXCEPT !.jobs = [i \in 1..Len(p.jobs) |-> JobExpandGlobs(p.jobs[i], dir)]]

(***************************************************************************)
(* Statement and the grammar.  grammar.rustpeg is not among the sources;   *)
(* the rules below follow the grammar surface the specification fixes:     *)
(* if / else / end / fn lines, blanks around every token, comparators by   *)
(* ordered choice with the two-character ones first.                       *)
(***************************************************************************)
Pipelines(ps) == [tag |-> "Pipelines", pipelines |-> ps]
If(l, c, r) == [tag |-> "If", left |-> l, comparitor |-> c, right |-> r]
Else == [tag |-> "Else"]
End == [tag |-> "End"]
Function(n, a) == [tag |-> "Function", name |-> n, args |-> a]

IsBlank(c) == c = " " \/ c = "TAB"

\* 0 is "no match"; otherwise the position after the match
RECURSIVE SkipBlanks(_, _)
SkipBlanks(t, p) == IF p <= Len(t) /\ IsBlank(t[p]) THEN SkipBlanks(t, p + 1) ELSE p

\* one or more blanks
Blanks1(t, p) == IF p >= 1 /\ p <= Len(t) /\ IsBlank(t[p]) THEN SkipBlanks(t, p) ELSE 0

\* a literal
Lit(t, p, lit) ==
    IF p >= 1 /\ p + Len(lit) - 1 <= Len(t) /\ SubSeq(t, p, p + Len(lit) - 1) = lit
    THEN p + Len(lit) ELSE 0

\* a value: one or more characters that are not blanks
RECURSIVE SkipWord(_, _)
SkipWord(t, p) == IF p <= Len(t) /\ ~IsBlank(t[p]) THEN SkipWord(t, p + 1) ELSE p

Word1(t, p) == IF p >= 1 /\ p <= Len(t) /\ ~IsBlank(t[p]) THEN SkipWord(t, p) ELSE 0

\* first alternative of an ordered choice that matches at p
RECURSIVE FirstMatch(_, _, _)
FirstMatch(t, p, alts) ==
    IF alts = <<>> THEN [pos |-> 0, val |-> "none"]
    ELSE IF Lit(t, p, Head(alts)[1]) # 0
         THEN [pos |-> Lit(t, p, Head(alts)[1]), val |-> Head(alts)[2]]
         ELSE FirstMatch(t, p, Tail(alts))

\* the comparators with the one-character ones tried first
comparitor_ShortFirst(t, p) ==
    FirstMatch(t, p, << <<(<<">">>), "GreaterThan">>, <<(<<"<">>), "LessThan">>,
                        <<(<<"=", "=">>), "Equal">>, <<(<<"!", "=">>), "NotEqual">>,
                        <<(<<">", "=">>), "GreaterThanOrEqual">>,
                        <<(<<"<", "=">>), "LessThanOrEqual">> >>)

\* comparitor = "==" / "!=" / ">=" / "<=" / ">" / "<"
comparitor(t, p) ==
    FirstMatch(t, p, << <<(<<"=", "=">>), "Equal">>, <<(<<"!", "=">>), "NotEqual">>,
                        <<(<<">", "=">>), "GreaterThanOrEqual">>,
                        <<(<<"<", "=">>), "LessThanOrEqual">>,
                        <<(<<">">>), "GreaterThan">>, <<(<<"<">>), "LessThan">> >>)

Fail == [ok |-> FALSE, err |-> "ParseError"]
Ok(v) == [ok |-> TRUE, val |-> v]

\* if_ = blank* "if" blank+ value blank+ comparitor blank+ value blank* EOF
if_(t) ==
    LET p1 == Lit(t, SkipBlanks(t, 1), <<"i", "f">>)
        p2 == Blanks1(t, p1)
        p3 == Word1(t, p2)
        p4 == Blanks1(t, p3)
        c  == IF p4 = 0 THEN [pos |-> 0, val |-> "none"] ELSE comparitor(t, p4)
        p6 == Blanks1(t, c.pos)
        p7 == Word1(t, p6)
    IN  IF p7 # 0 /\ SkipBlanks(t, p7) = Len(t) + 1
        THEN Ok(If(SubSeq(t, p2, p3 - 1), c.val, SubSeq(t, p6, p7 - 1)))
        ELSE Fail

\* else_ = blank* "else" blank* EOF
else_(t) ==
    LET p1 == Lit(t, SkipBlanks(t, 1), <<"e", "l", "s", "e">>)
    IN  IF p1 # 0 /\ SkipBlanks(t, p1) = Len(t) + 1 THEN Ok(Else) ELSE Fail

\* end_ = blank* "end" blank* EOF
end_(t) ==
    LET p1 == Lit(t, SkipBlanks(t, 1), <<"e", "n", "d">>)
    IN  IF p1 # 0 /\ SkipBlanks(t, p1) = Len(t) + 1 THEN Ok(End) ELSE Fail

\* (blank+ value)* : the values from p on, and the position after them
RECURSIVE FnArgs(_, _, _)
FnArgs(t, p, acc) ==
    LET q == Blanks1(t, p)
        r == Word1(t, q)
    IN  IF r = 0 THEN [pos |-> p, args |-> acc]
        ELSE FnArgs(t, r, Append(acc, SubSeq(t, q, r - 1)))

\* fn_ = blank* "fn" blank+ value (blank+ value)* blank* EOF
fn_(t) ==
    LET p1 == Lit(t, SkipBlanks(t, 1), <<"f", "n">>)
        p2 == Blanks1(t, p1)
        p3 == Word1(t, p2)
        a  == IF p3 = 0 THEN [pos |-> 0, args |-> <<>>] ELSE FnArgs(t, p3, <<>>)
    IN  IF p3 # 0 /\ SkipBlanks(t, a.pos) = Len(t) + 1
        THEN Ok(Function(SubSeq(t, p2, p3 - 1), a.args))
        ELSE Fail

\* parse_ = if_ / else_ / end_ / fn_
parse_(t) ==
    IF if_(t).ok THEN if_(t)
    ELSE IF else_(t).ok THEN else_(t)
    ELSE IF end_(t).ok THEN end_(t)
    ELSE fn_(t)

\* parse that hands the syntax error on as an End statement and prints nothing
parse_ErrIsEnd(t) ==
    IF parse_(t).ok THEN [ret |-> parse_(t).val, lines |-> <<>>]
    ELSE [ret |-> End, lines |-> <<>>]

\* parse (peg.rs:91-99): the Statement returned and the lines printed
parse(t) ==
    IF parse_(t).ok THEN [ret |-> parse_(t).val, lines |-> <<>>]
    ELSE [ret |-> Pipelines(<<>>), lines |-> << <<"ion: Syntax ", parse_(t).err>> >>]

(***************************************************************************)
(* Select.  Index, Range and parse_index_range are not among the sources;  *)
(* they follow the specification: an Index wraps a signed integer and      *)
(* resolves against a size, a Range resolves to a (start, length) window,  *)
(* range literals are "a..b" (half-open) and "a...b" (inclusive) with      *)
(* either bound optional.                                                  *)
(***************************************************************************)
\* Option<T>: <<>> is None, <<x>> is Some(x)
IsDigit(c) == c \in {"0", "1", "2"}

DigitVal(c) == CASE c = "0" -> 0 [] c = "1" -> 1 [] c = "2" -> 2 [] OTHER -> 0

RECURSIVE DigitsVal(_, _)
DigitsVal(ds, acc) ==
    IF ds = <<>> THEN acc ELSE DigitsVal(Tail(ds), acc * 10 + DigitVal(Head(ds)))

\* str::parse::<isize> (mod.rs:80): an optional sign, then one or more
\* digits and nothing else; the texts of the domain are too short to overflow
ParseIsize(t) ==
    LET signed == t # <<>> /\ Head(t) \in {"+", "-"}
        ds == IF signed THEN Tail(t) ELSE t
    IN  IF ds # <<>> /\ \A i \in 1..Len(ds) : IsDigit(ds[i])
        THEN <<IF signed /\ Head(t) = "-" THEN 0 - DigitsVal(ds, 0) ELSE DigitsVal(ds, 0)>>
        ELSE <<>>

\* Index::new
IndexNew(i) == [value |-> i]

\* Index::resolve: a non-negative index is the position itself, a negative
\* one counts from the end
IndexResolve(idx, size) ==
    IF idx.value >= 0 THEN <<idx.value>>
    ELSE IF size + idx.value >= 0 THEN <<size + idx.value>>
    ELSE <<>>

RangeNew(start, end, inclusive) == [start |-> start, end |-> end, inclusive |-> inclusive]

\* Range::bounds: (start, length) of the window, None when a bound does not
\* resolve or the end lies before the start
RangeBounds(r, size) ==
    LET s == IndexResolve(r.start, size)
        e == IndexResolve(r.end, size)
    IN  IF s = <<>> \/ e = <<>> THEN <<>>
        ELSE IF e[1] < s[1] THEN <<>>
        ELSE IF r.inclusive THEN << <<s[1], e[1] - s[1] + 1>> >>
        ELSE << <<s[1], e[1] - s[1]>> >>

\* position of the first '.' of t, 0 when there is none
RECURSIVE FirstDot(_, _)
FirstDot(t, p) == IF p > Len(t) THEN 0 ELSE IF t[p] = "." THEN p ELSE FirstDot(t, p + 1)

RECURSIVE SkipDots(_, _)
SkipDots(t, p) == IF p <= Len(t) /\ t[p] = "." THEN SkipDots(t, p + 1) ELSE p

\* parse_index_range: start, two or three dots, end; an omitted start is the
\* first position, an omitted end the last one; both omitted is no range
parse_index_range(t) ==
    LET d == FirstDot(t, 1)
        e == SkipDots(t, d)
        first == SubSeq(t, 1, d - 1)
        last == SubSeq(t, e, Len(t))
        inclusive == e - d = 3
    IN  IF d = 0 \/ e - d \notin {2, 3} THEN <<>>
        ELSE IF first = <<>> /\ last = <<>> THEN <<>>
        ELSE IF first = <<>>
             THEN IF ParseIsize(last) = <<>> THEN <<>>
                  ELSE <<RangeNew(IndexNew(0), IndexNew(ParseIsize(last)[1]), inclusive)>>
        ELSE IF last = <<>>
             THEN IF ParseIsize(first) = <<>> THEN <<>>
                  ELSE <<RangeNew(IndexNew(ParseIsize(first)[1]), IndexNew(0 - 1), TRUE)>>
        ELSE IF ParseIsize(first) = <<>> \/ ParseIsize(last) = <<>> THEN <<>>
        ELSE <<RangeNew(IndexNew(ParseIsize(first)[1]), IndexNew(ParseIsize(last)[1]), inclusive)>>

\* enum Select (mod.rs:31-42)
SelectNone == [tag |-> "None"]
SelectAll == [tag |-> "All"]
SelectIndex(idx) == [tag |-> "Index", index |-> idx]
SelectRange(r) == [tag |-> "Range", range |-> r]
SelectKey(k) == [tag |-> "Key", key |-> k]

\* from_str without the ".." case
FromStr_NoAll(t) ==
    IF ParseIsize(t) # <<>> THEN Ok(SelectIndex(IndexNew(ParseIsize(t)[1])))
    ELSE IF parse_index_range(t) # <<>> THEN Ok(SelectRange(parse_index_range(t)[1]))
    ELSE Ok(SelectKey(t))

\* impl FromStr for Select (mod.rs:73-90)
FromStr(t) ==
    IF t = <<".", ".">> THEN Ok(SelectAll)
    ELSE IF ParseIsize(t) # <<>> THEN Ok(SelectIndex(IndexNew(ParseIsize(t)[1])))
    ELSE IF parse_index_range(t) # <<>> THEN Ok(SelectRange(parse_index_range(t)[1]))
    ELSE Ok(SelectKey(t))

\* Iterator::nth, skip and take on the items an iterator still holds
Nth(items, n) == IF n < Len(items) THEN <<items[n + 1]>> ELSE <<>>
Skip(items, n) == SubSeq(items, n + 1, Len(items))
Take(items, n) == SubSeq(items, 1, IF n < Len(items) THEN n ELSE Len(items))

\* select with nth counted from one
Select_NthFromOne(items, s, size) ==
    CASE s.tag = "None" -> <<>>
      [] s.tag = "All" -> items
      [] s.tag = "Index" ->
            IF IndexResolve(s.index, size) = <<>> THEN <<>>
            ELSE IF IndexResolve(s.index, size)[1] = 0 THEN <<>>
            ELSE Nth(items, IndexResolve(s.index, size)[1] - 1)
      [] s.tag = "Range" ->
            IF RangeBounds(s.range, size) # <<>>
            THEN Take(Skip(items, RangeBounds(s.range, size)[1][1]), RangeBounds(s.range, size)[1][2])
            ELSE <<>>
      [] s.tag = "Key" -> <<>>

\* select with take applied before skip
Select_TakeThenSkip(items, s, size) ==
    CASE s.tag = "None" -> <<>>
      [] s.tag = "All" -> items
      [] s.tag = "Index" ->
            IF IndexResolve(s.index, size) = <<>> THEN <<>>
            ELSE Nth(items, IndexResolve(s.index, size)[1])
      [] s.tag = "Range" ->
            IF RangeBounds(s.range, size) # <<>>
            THEN Skip(Take(items, RangeBounds(s.range, size)[1][2]), RangeBounds(s.range, size)[1][1])
            ELSE <<>>
      [] s.tag = "Key" -> <<>>

\* SelectWithSize::select (mod.rs:54-70)
Select(items, s, size) ==
    CASE s.tag = "None" -> <<>>
      [] s.tag = "All" -> items
      [] s.tag = "Index" ->
            IF IndexResolve(s.index, size) = <<>> THEN <<>>
            ELSE Nth(items, IndexResolve(s.index, size)[1])
      [] s.tag = "Range" ->
            IF RangeBounds(s.range, size) # <<>>
            THEN Take(Skip(items, RangeBounds(s.range, size)[1][1]), RangeBounds(s.range, size)[1][2])
            ELSE <<>>
      [] s.tag = "Key" -> <<>>

(***************************************************************************)
(* Input domains of the glob pass                                          *)
(***************************************************************************)
\* entries the working directory may hold
NameUniverse == { <<"a">>, <<"a", "b">>, <<"*">>, <<"xFF">> }

Dirs ==
    {[files |-> F, readable |-> TRUE] : F \in SUBSET NameUniverse}
        \cup {[files |-> {}, readable |-> FALSE]}

\* argument words: plain ones, patterns, and one invalid pattern
Words == { <<"l">>, <<"a">>, <<"*">>, <<"a", "?">>, <<"b", "*">>, <<"[">> }

ArgLists == UNION {[1..n -> Words] : n \in 1..MaxArgs}

\* argument lists of the jobs of a pipeline
PipeArgLists == { <<(<<"l">>), (<<"*">>)>>, <<(<<"a", "?">>), (<<"[">>)>> }

PipeJobs == {JobNew(a, k) : a \in PipeArgLists, k \in JobKind}

JobLists == UNION {[1..n -> PipeJobs] : n \in 0..MaxJobs}

\* Option<Redirection>: <<>> is None, <<r>> is Some(r)
Redirection(file, append) == [file |-> file, append |-> append]

StdinOpts == { <<>>, <<Redirection(<<"a">>, FALSE)>> }
StdoutOpts == { <<>>, <<Redirection(<<"l">>, TRUE)>> }

(***************************************************************************)
(* Specification of a single job: Job::new, then expand_globs calls        *)
(***************************************************************************)
IdleParse == code = <<>> /\ stmt = <<>> /\ printed = <<>>
IdleSelect == data = <<>> /\ sel = <<>> /\ call = <<>> /\ out = <<>>
IdleJob == job = <<>> /\ argsLog = <<>>
IdlePipe == pipeline = <<>> /\ pipeLog = <<>>

InitJob == fs \in Dirs /\ IdleJob /\ IdlePipe /\ IdleParse /\ IdleSelect

NewJob ==
    /\ job = <<>>
    /\ \E args \in ArgLists, kind \in JobKind :
          /\ job' = <<JobNew(args, kind)>>
          /\ argsLog' = <<args>>
    /\ UNCHANGED <<fs, pipeVars, parseVars, selectVars>>

ExpandJob ==
    /\ job # <<>>
    /\ Len(argsLog) <= MaxExpands
    /\ job' = <<JobExpandGlobs(job[1], fs)>>
    /\ argsLog' = Append(argsLog, job'[1].args)
    /\ UNCHANGED <<fs, pipeVars, parseVars, selectVars>>

NextJob == NewJob \/ ExpandJob

SpecJob == InitJob /\ [][NextJob]_vars

(***************************************************************************)
(* Specification of a pipeline: Pipeline::new, then expand_globs calls     *)
(***************************************************************************)
InitPipeline == fs \in Dirs /\ IdleJob /\ IdlePipe /\ IdleParse /\ IdleSelect

NewPipeline ==
    /\ pipeline = <<>>
    /\ \E jobs \in JobLists, stdin \in StdinOpts, stdout \in StdoutOpts :
          /\ pipeline' = <<PipelineNew(jobs, stdin, stdout)>>
          /\ pipeLog' = pipeline'
    /\ UNCHANGED <<fs, jobVars, parseVars, selectVars>>

ExpandPipeline ==
    /\ pipeline # <<>>
    /\ Len(pipeLog) <= MaxExpands
    /\ pipeline' = <<PipelineExpandGlobs(pipeline[1], fs)>>
    /\ pipeLog' = Append(pipeLog, pipeline'[1])
    /\ UNCHANGED <<fs, jobVars, parseVars, selectVars>>

NextPipeline == NewPipeline \/ ExpandPipeline

SpecPipeline == InitPipeline /\ [][NextPipeline]_vars

(***************************************************************************)
(* Specification of a read loop that calls parse on each line              *)
(***************************************************************************)
Spaces(n) == [i \in 1..n |-> " "]

Operands == { <<"1">>, <<"2">>, <<"a", "b">> }

ComparitorOf ==
    [op \in { <<"=", "=">>, <<"!", "=">>, <<">", "=">>, <<"<", "=">>, <<">">>, <<"<">> } |->
        CASE op = <<"=", "=">> -> "Equal"
          [] op = <<"!", "=">> -> "NotEqual"
          [] op = <<">", "=">> -> "GreaterThanOrEqual"
          [] op = <<"<", "=">> -> "LessThanOrEqual"
          [] op = <<">">> -> "GreaterThan"
          [] op = <<"<">> -> "LessThan"]

\* the comparators, and two texts that are none
OpTexts == DOMAIN ComparitorOf \cup { <<"=">>, <<"=", "<">> }

IfText(lead, l, op, r, trail) ==
    Spaces(lead) \o <<"i", "f", " ">> \o l \o <<" ">> \o op \o <<" ">> \o r \o Spaces(trail)

OtherTexts ==
    { <<"e", "l", "s", "e">>, <<"e", "n", "d">>, <<"e", "n">>,
      <<"f", "n", " ", "b">>, <<"f", "n", " ", "b", " ", "1", " ", "2">>, <<"f", "n">>,
      <<"i", "f", " ", "1">>, <<>> }

Lines ==
    {IfText(lead, l, op, r, trail) :
        lead \in 0..1, l \in Operands, op \in OpTexts, r \in Operands, trail \in 0..MaxTrail}
    \cup {Spaces(lead) \o t \o Spaces(trail) :
        lead \in 0..1, t \in OtherTexts, trail \in 0..MaxTrail}

InitParse ==
    /\ fs = [files |-> {}, readable |-> TRUE]
    /\ IdleJob /\ IdlePipe /\ IdleParse /\ IdleSelect

\* parse on every line of the domain, evaluated once
ParseOf == [line \in Lines |-> parse(line)]

\* one turn of the loop: read a line, parse it
ParseLine ==
    /\ Len(printed) < MaxPrinted
    /\ \E line \in Lines :
          /\ code' = line
          /\ stmt' = <<ParseOf[line].ret>>
          /\ printed' = printed \o ParseOf[line].lines
    /\ UNCHANGED <<fs, jobVars, pipeVars, selectVars>>

NextParse == ParseLine

SpecParse == InitParse /\ [][NextParse]_vars

(***************************************************************************)
(* Specification of the selector: from_str on a text, select on a sequence *)
(***************************************************************************)
DataChars == {"1", "2", "-", ".", "k"}

DataTexts ==
    UNION {[1..n -> DataChars] : n \in 0..MaxDataLen}
    \cup { <<"1", ".", ".", "2">>, <<"2", ".", ".", "1">>, <<"0", ".", ".", ".", "1">>,
           <<"-", "2", ".", ".", "-", "1">>, <<".", ".", ".", "2">>, <<"+", "1">>,
           <<"1", ".", ".", ".", ".", "2">>, <<"k", ".", ".", "1">> }

\* the sequences select is applied to: n distinct items
ItemsOf(n) == [i \in 1..n |-> <<"item", i>>]

InitSelect ==
    /\ fs = [files |-> {}, readable |-> TRUE]
    /\ IdleJob /\ IdlePipe /\ IdleParse /\ IdleSelect

FromStrCall ==
    /\ sel = <<>>
    /\ call = <<>>
    /\ \E t \in DataTexts :
          /\ data' = t
          /\ sel' = <<FromStr(t)>>
    /\ call' = <<>>
    /\ out' = <<>>
    /\ UNCHANGED <<fs, jobVars, pipeVars, parseVars>>

\* select with the Select just parsed
SelectParsed ==
    /\ sel # <<>>
    /\ sel[1].ok
    /\ call = <<>>
    /\ \E n \in 0..MaxItems, size \in 0..MaxItems :
          /\ call' = <<[items |-> ItemsOf(n), s |-> sel[1].val, size |-> size]>>
          /\ out' = Select(ItemsOf(n), sel[1].val, size)
    /\ UNCHANGED <<fs, jobVars, pipeVars, parseVars, data, sel>>

\* select with the sentinel Select::None, which no text parses to
SelectNothing ==
    /\ call = <<>>
    /\ \E n \in 0..MaxItems, size \in 0..MaxItems :
          /\ call' = <<[items |-> ItemsOf(n), s |-> SelectNone, size |-> size]>>
          /\ out' = Select(ItemsOf(n), SelectNone, size)
    /\ UNCHANGED <<fs, jobVars, pipeVars, parseVars, data, sel>>

NextSelect == FromStrCall \/ SelectParsed \/ SelectNothing

SpecSelect == InitSelect /\ [][NextSelect]_vars

(***************************************************************************)
(* Properties of the glob pass                                             *)
(***************************************************************************)
\* the paths glob yields for a pattern: the Ok items of a valid pattern
MatchPaths(arg, dir) ==
    LET g == Glob(arg, dir)
        oks == SelectSeq(g.items, LAMBDA it : it.ok)
    IN  IF g.ok THEN [i \in 1..Len(oks) |-> oks[i].path] ELSE <<>>

\* what one argument is replaced by
Replacement(arg, dir) ==
    IF ContainsMeta(arg) /\ MatchPaths(arg, dir) # <<>> THEN MatchPaths(arg, dir) ELSE <<arg>>

RECURSIVE Concat(_)
Concat(seqs) == IF seqs = <<>> THEN <<>> ELSE Head(seqs) \o Concat(Tail(seqs))

\* C1: expand_globs replaces every argument that has a metacharacter and one
\* or more matches by its matches in match order, keeps every other argument
\* as the literal, and keeps the groups in the order of the original args.
C1_ExpandReplacesPerArgument ==
    \A k \in 2..Len(argsLog) :
        argsLog[k] = Concat([i \in 1..Len(argsLog[k - 1]) |-> Replacement(argsLog[k - 1][i], fs)])

\* a call that replaced one argument by two matches and kept a pattern literally
C1_Witness ==
    /\ Len(argsLog) >= 2
    /\ \E i, k \in 1..Len(argsLog[1]) :
          /\ Len(MatchPaths(argsLog[1][i], fs)) >= 2
          /\ ContainsMeta(argsLog[1][k])
          /\ MatchPaths(argsLog[1][k], fs) = <<>>

\* C2: the first element of args equals command, after Job::new and after
\* any number of expand_globs calls.
C2_FirstArgIsCommand == job # <<>> => job[1].args[1] = job[1].command

\* C3: a second expand_globs call leaves args as the first call left them.
C3_RerunIsNoOp == \A k \in 3..Len(argsLog) : argsLog[k] = argsLog[k - 1]

\* no path the first call gets from a match contains a metacharacter
CleanMatches ==
    \A i \in 1..Len(argsLog[1]) :
        ContainsMeta(argsLog[1][i]) =>
            \A m \in 1..Len(MatchPaths(argsLog[1][i], fs)) :
                ~ContainsMeta(MatchPaths(argsLog[1][i], fs)[m])

\* C3 (amended): a second expand_globs call leaves args as the first call
\* left them, provided no path the first call produced from a match contains
\* a metacharacter.
C3_RerunIsNoOpOnCleanMatches ==
    (Len(argsLog) >= 3 /\ CleanMatches) => C3_RerunIsNoOp

\* two calls, the first of which expanded a pattern and kept another one
C3_Witness ==
    /\ Len(argsLog) >= 3
    /\ CleanMatches
    /\ Len(argsLog[2]) > Len(argsLog[1])
    /\ \E i \in 1..Len(argsLog[2]) : ContainsMeta(argsLog[2][i])

\* C9: args is never empty, and no expand_globs call makes args shorter.
C9_ArgsNeverShrink ==
    /\ job # <<>> => Len(job[1].args) >= 1
    /\ \A k \in 2..Len(argsLog) : Len(argsLog[k]) >= Len(argsLog[k - 1])

\* a call on patterns none of which matched, in a directory that has entries
C9_Witness ==
    /\ Len(argsLog) >= 2
    /\ fs.files # {}
    /\ \A i \in 1..Len(argsLog[1]) :
          ContainsMeta(argsLog[1][i]) /\ MatchPaths(argsLog[1][i], fs) = <<>>
    /\ Len(argsLog[2]) = MaxArgs

\* C10: Pipeline::expand_globs keeps the number and order of the jobs, each
\* job's command and kind, and stdin and stdout; each job's args become what
\* Job::expand_globs gives for that job.
C10_PipelineFrame ==
    \A k \in 2..Len(pipeLog) :
        LET old == pipeLog[k - 1]
            new == pipeLog[k]
        IN  /\ new.stdin = old.stdin
            /\ new.stdout = old.stdout
            /\ Len(new.jobs) = Len(old.jobs)
            /\ \A i \in 1..Len(old.jobs) :
                  /\ new.jobs[i].command = old.jobs[i].command
                  /\ new.jobs[i].kind = old.jobs[i].kind
                  /\ new.jobs[i].args = JobExpandGlobs(old.jobs[i], fs).args

\* a call on two different jobs with both redirections set that changed args
C10_Witness ==
    /\ Len(pipeLog) >= 2
    /\ Len(pipeLog[1].jobs) = 2
    /\ pipeLog[1].jobs[1] # pipeLog[1].jobs[2]
    /\ pipeLog[1].stdin # <<>>
    /\ pipeLog[1].stdout # <<>>
    /\ pipeLog[2].jobs[1].args # pipeLog[1].jobs[1].args

(***************************************************************************)
(* Properties of parse                                                     *)
(***************************************************************************)
StatementTags == {"Pipelines", "If", "Else", "End", "Function"}

\* C4: parse returns the grammar's Statement when the grammar accepts the
\* text, and on a syntax error prints a diagnostic and returns Pipelines
\* with no pipeline; it always returns a Statement.
C4_ParseNeverFails ==
    stmt # <<>> =>
        /\ stmt[1].tag \in StatementTags
        /\ parse_(code).ok => stmt[1] = parse_(code).val
        /\ ~parse_(code).ok =>
              /\ stmt[1] = Pipelines(<<>>)
              /\ printed # <<>>
              /\ printed[Len(printed)] = <<"ion: Syntax ", parse_(code).err>>

\* the loop went on after a syntax error: an accepted line follows a diagnostic
C4_Witness ==
    /\ stmt # <<>>
    /\ printed # <<>>
    /\ parse_(code).ok
    /\ stmt[1].tag = "If"

\* C8: "if L op R" parses to If{L, variant of op, R} for each of the six
\* comparators, "<=" and ">=" included, whatever blanks follow R.
C8_ComparitorLongestMatch ==
    stmt # <<>> =>
        \A l \in Operands, r \in Operands, op \in DOMAIN ComparitorOf, trail \in 0..MaxTrail :
            code = IfText(0, l, op, r, trail) => stmt[1] = If(l, ComparitorOf[op], r)

\* "if ab <= 2" followed by blanks has been parsed
C8_Witness ==
    /\ stmt # <<>>
    /\ code = IfText(0, <<"a", "b">>, <<"<", "=">>, <<"2">>, MaxTrail)
    /\ stmt[1].tag = "If"

(***************************************************************************)
(* Properties of the selector                                              *)
(***************************************************************************)
\* C5: from_str is total: ".." gives All, else an integer text gives Index
\* of that integer, else a range literal gives Range, else Key of the text;
\* the result is Ok and never Select::None.
C5_FromStrTotal ==
    sel # <<>> =>
        /\ sel[1].ok
        /\ sel[1].val.tag \in {"All", "Index", "Range", "Key"}
        /\ LET s == sel[1].val
                isAll == data = <<".", ".">>
                isInt == ~isAll /\ ParseIsize(data) # <<>>
                isRange == ~isAll /\ ~isInt /\ parse_index_range(data) # <<>>
            IN  /\ isAll => s = SelectAll
                /\ isInt => s = SelectIndex(IndexNew(ParseIsize(data)[1]))
                /\ isRange => s = SelectRange(parse_index_range(data)[1])
                /\ (~isAll /\ ~isInt /\ ~isRange) => s = SelectKey(data)

\* ".." has been parsed
C5_Witness == sel # <<>> /\ data = <<".", ".">> /\ sel[1].val.tag = "All"

\* C6: Index(i) on N items with size = N gives the item at position i when
\* 0 <= i < N, the item at N + i when i < 0 and N + i >= 0, else nothing.
C6_SelectIndex ==
    (call # <<>> /\ call[1].s.tag = "Index" /\ call[1].size = Len(call[1].items)) =>
        LET i == call[1].s.index.value
            N == Len(call[1].items)
        IN  /\ Len(out) <= 1
            /\ (i >= 0 /\ i < N) => out = <<call[1].items[i + 1]>>
            /\ (i >= 0 /\ i >= N) => out = <<>>
            /\ (i < 0 /\ N + i >= 0) => out = <<call[1].items[N + i + 1]>>
            /\ (i < 0 /\ N + i < 0) => out = <<>>

\* Index(-2) on three items has given the second one
C6_Witness ==
    /\ call # <<>>
    /\ call[1].s.tag = "Index"
    /\ call[1].s.index.value = 0 - 2
    /\ call[1].size = 3
    /\ Len(call[1].items) = 3
    /\ out = <<call[1].items[2]>>

\* C7: Range(r) on N items with size = N: when r resolves to (start, length)
\* with start + length <= N the result is the items at start .. start +
\* length - 1 in order; when r does not resolve the result is empty.
C7_SelectRange ==
    (call # <<>> /\ call[1].s.tag = "Range" /\ call[1].size = Len(call[1].items)) =>
        LET b == RangeBounds(call[1].s.range, call[1].size)
            N == Len(call[1].items)
        IN  /\ b = <<>> => out = <<>>
            /\ (b # <<>> /\ b[1][1] + b[1][2] <= N) =>
                    out = [k \in 1..b[1][2] |-> call[1].items[b[1][1] + k]]

\* a range has resolved to a window of two items that does not start at the
\* first item
C7_Witness ==
    /\ call # <<>>
    /\ call[1].s.tag = "Range"
    /\ call[1].size = Len(call[1].items)
    /\ RangeBounds(call[1].s.range, call[1].size) = << <<1, 2>> >>
    /\ Len(out) = 2

====
